---- MODULE Spec2Model ----
(***************************************************************************)
(* A model of consular: the bridge that mirrors Marathon apps, tasks and  *)
(* labels into Consul agents and the Consul key/value store.              *)
(*                                                                         *)
(* Strings whose characters matter to the code (app ids, app names, tags, *)
(* k/v keys) are tuples of one-character strings, so that lstrip,         *)
(* replace, startswith and split are computed character by character.     *)
(* Opaque strings (task ids, hosts, label values) are TLA+ strings.       *)
(***************************************************************************)
EXTENDS Integers, Sequences, FiniteSets, Bags, TLC

\* ------------------------------------------------------------------------
\* Python string primitives, on tuples of characters
\* ------------------------------------------------------------------------

RECURSIVE LStrip(_, _)
\* str.lstrip(chars): drop leading characters while they are in the set chars
LStrip(s, chars) ==
    IF s # <<>> /\ Head(s) \in chars THEN LStrip(Tail(s), chars) ELSE s

\* str.replace(old, new) for one-character old and new
Replace(s, old, new) ==
    [i \in 1..Len(s) |-> IF s[i] = old THEN new ELSE s[i]]

\* str.startswith(prefix)
StartsWith(s, p) ==
    /\ Len(p) <= Len(s)
    /\ SubSeq(s, 1, Len(p)) = p

RECURSIVE SplitLast(_, _, _)
\* str.split(sep, maxsplit)[-1]: what follows the maxsplit-th separator, or
\* what follows the last separator when there are fewer
SplitLast(s, sep, maxsplit) ==
    IF maxsplit = 0 \/ ~(\E i \in 1..Len(s) : s[i] = sep)
    THEN s
    ELSE LET i == CHOOSE j \in 1..Len(s) :
                     /\ s[j] = sep
                     /\ \A k \in 1..(j - 1) : s[k] # sep
         IN  SplitLast(SubSeq(s, i + 1, Len(s)), sep, maxsplit - 1)

\* the set of characters of a string
CharSet(s) == {s[i] : i \in 1..Len(s)}

\* urllib.quote with its default safe set: letters, digits and "_.-/" pass,
\* every other character becomes a percent escape (here one token per escape)
SafeChars == {"a", "b", "c", "d", "e", "g", "i", "l", "n", "o", "p", "r", "s",
              "u", "x", "y", "-", "/"}

RECURSIVE Quote(_)
Quote(s) ==
    IF s = <<>> THEN <<>>
    ELSE (IF Head(s) \in SafeChars THEN <<Head(s)>> ELSE <<"%", Head(s)>>)
         \o Quote(Tail(s))

RECURSIVE Unquote(_)
\* the server's decoding of the request path
Unquote(s) ==
    IF s = <<>> THEN <<>>
    ELSE IF Head(s) = "%" /\ Len(s) >= 2
         THEN <<s[2]>> \o Unquote(SubSeq(s, 3, Len(s)))
         ELSE <<Head(s)>> \o Unquote(Tail(s))

\* ------------------------------------------------------------------------
\* Module-level functions of main.py
\* ------------------------------------------------------------------------

\* get_app_name: app_id.lstrip('/').replace('/', '-')
get_app_name(app_id) == Replace(LStrip(app_id, {"/"}), "/", "-")

\* get_agent_endpoint: 'http://%s:8500' % host.  The URL of an agent is
\* written as the host it names.
get_agent_endpoint(host) == host

\* ------------------------------------------------------------------------
\* Tagging (Consular.reg_id_tag .. Consular._consular_tag_key)
\* ------------------------------------------------------------------------

\* the registration id this bridge was started with
registration_id == <<"r">>

\* _consular_tag_key: 'consular-%s=' % tag_name
_consular_tag_key(tag_name) ==
    <<"c", "o", "n", "s", "u", "l", "a", "r", "-">> \o tag_name \o <<"=">>

\* _consular_tag: the tag key followed by the value
_consular_tag(tag_name, value) == _consular_tag_key(tag_name) \o value

RegIdName == <<"r", "e", "g", "-", "i", "d">>
AppIdName == <<"a", "p", "p", "-", "i", "d">>

reg_id_tag == _consular_tag(RegIdName, registration_id)

app_id_tag(app_id) == _consular_tag(AppIdName, app_id)

\* the list comprehension of _find_consular_tag: the tags that start with
\* the tag key, in list order
TagMatches(tags, tag_name) ==
    SelectSeq(tags, LAMBDA tag : StartsWith(tag, _consular_tag_key(tag_name)))

\* returned by _find_consular_tag when no tag matches (Python's None)
None == <<"N", "o", "n", "e">>

\* _find_consular_tag raises RuntimeError when more than one tag matches
FindTagRaises(tags, tag_name) == Len(TagMatches(tags, tag_name)) > 1

\* a parser that takes what follows the last "=" of the matching tag
_find_consular_tag_after_last_equals(tags, tag_name) ==
    LET matches == TagMatches(tags, tag_name)
    IN  IF matches = <<>> THEN None
        ELSE SplitLast(matches[1], "=", Len(matches[1]))

\* _find_consular_tag: the value of the only matching tag; the prefix is
\* removed with lstrip, which strips a set of characters
_find_consular_tag(tags, tag_name) ==
    LET matches == TagMatches(tags, tag_name)
    IN  IF matches = <<>> THEN None
        ELSE LStrip(matches[1], CharSet(_consular_tag_key(tag_name)))

get_app_id_from_tags(tags) == _find_consular_tag(tags, AppIdName)

\* membership in a Python list
InList(x, list) == \E i \in 1..Len(list) : list[i] = x

\* a register body that carries the registration id tag only
_create_service_registration_reg_id_only(app_id, service_id, address, port) ==
    [Name    |-> get_app_name(app_id),
     ID      |-> service_id,
     Address |-> address,
     Port    |-> port,
     Tags    |-> <<reg_id_tag>>]

\* _create_service_registration: the body of a register request
_create_service_registration(app_id, service_id, address, port) ==
    [Name    |-> get_app_name(app_id),
     ID      |-> service_id,
     Address |-> address,
     Port    |-> port,
     Tags    |-> <<reg_id_tag, app_id_tag(app_id)>>]

\* ------------------------------------------------------------------------
\* The bounded world: Marathon apps and tasks, Consul hosts, labels
\* ------------------------------------------------------------------------

A1 == <<"/", "a">>
A2 == <<"/", "a", "/", "b">>
A3 == <<"/", "a", "-", "b">>
AppIds == {A1, A2, A3}

\* label keys and values an app may carry
LabelKeys == {<<"x">>, <<"y">>}
LabelValues == {"v1"}

\* the Consul agents: one Mesos worker and the Consul server.  The bridge is
\* given the server's URL as consul_endpoint, under a name of its own (as
\* 'http://localhost:8500' in the tests), so that it differs as a string from
\* the URL get_agent_endpoint builds from the server's node address.
Workers == {"h1"}
ConsulHost == "hc"
Hosts == Workers \cup {ConsulHost}
consul_endpoint == "consul"
marathon_endpoint == "marathon"

\* the agent that answers at an endpoint
AgentAt(endpoint) == IF endpoint = consul_endpoint THEN ConsulHost ELSE endpoint

\* the tasks Marathon may run: id, app, host, ports
T1 == [id |-> "t1", app |-> A1, host |-> "h1", ports |-> <<1>>]
T2 == [id |-> "t2", app |-> A2, host |-> "h1", ports |-> <<2>>]
TaskUniverse == {T1, T2}

\* bounds of the model: calls made on the bridge, answers that are failures
\* or non-2xx, changes Marathon makes on its own
MaxOps == 1
MaxFaults == 1

\* ------------------------------------------------------------------------
\* State
\* ------------------------------------------------------------------------

VARIABLES
    enable_fallback, \* Consular.enable_fallback
    schedApps,       \* Marathon: app id -> labels (label key -> value)
    schedTasks,      \* Marathon: the tasks that exist now
    schedVersion,    \* number of changes Marathon has made to apps and tasks
    subscriptions,   \* Marathon: the callback URLs subscribed to its events
    agents,          \* Consul: host -> the services of that host's agent
    kv,              \* Consul: the k/v store, key -> value
    ops,             \* the calls made on the bridge, with their results
    inflight,        \* the HTTP requests that have not been answered yet
    loops,           \* purge_dead_agent_services: the groups still to purge
    sent,            \* history: the bag of all requests ever issued
    failures,        \* history: the requests answered by a failure or non-2xx
    limit            \* the bounds of the run: [ops, faults, changes]

vars == <<enable_fallback, schedApps, schedTasks, schedVersion,
          subscriptions, agents, kv, ops, inflight, loops, sent, failures,
          limit>>

\* what no step of the bridge changes: its configuration, and Marathon
config == <<limit, enable_fallback>>
marathon == <<schedApps, schedTasks, schedVersion, subscriptions>>

\* ------------------------------------------------------------------------
\* Requests
\* ------------------------------------------------------------------------

NoBody == [Name |-> <<>>, ID |-> "", Address |-> "", Port |-> 0, Tags |-> <<>>]

\* One HTTP request handed to treq, with what the callbacks chained on its
\* Deferred close over: op is the call it belongs to, kind names method and
\* path, host is the endpoint the URL starts with.
Req(op, kind, host) ==
    [op |-> op, kind |-> kind, host |-> host, timeout |-> 0,
     app |-> <<>>, sid |-> "", body |-> NoBody, key |-> <<>>, val |-> "",
     flag |-> FALSE, ctx |-> "", agent |-> "", labels |-> {}, apps |-> {},
     sids |-> {}]

\* Consular._timeout and Consular.fallback_timeout, in seconds
_timeout == 5
fallback_timeout == 2
\* JsonClient.timeout
marathon_timeout == 5

\* Consular.consul_request: every Consul request is given fallback_timeout
consul_request(r) == [r EXCEPT !.timeout = fallback_timeout]

\* MarathonClient.marathon_request -> JsonClient.request: timeout or self.timeout
marathon_request(r) == [r EXCEPT !.timeout = marathon_timeout]

\* 'consular/' and the k/v key paths built from it
ConsularDir == <<"c", "o", "n", "s", "u", "l", "a", "r", "/">>

\* put_consul_app_labels: 'consular/%s/%s' % (app_name, key)
LabelKey(app_name, key) == ConsularDir \o app_name \o <<"/">> \o key

\* get_consul_app_keys: 'consular/%s' % (app_name,)
AppKeysPath(app_name) == ConsularDir \o app_name

\* register_service: PUT <agent_endpoint>/v1/agent/service/register
register_service(op, agent_endpoint, app_id, service_id, address, port) ==
    consul_request([Req(op, "register", agent_endpoint) EXCEPT
        !.ctx = "agent",
        !.body = _create_service_registration(app_id, service_id, address,
                                              port)])

\* a retry that goes to the agent that has just failed
register_service_again(r) ==
    consul_request([Req(r.op, "register", r.host) EXCEPT
        !.ctx = "fallback", !.body = r.body])

\* register_service_fallback: the same registration, PUT to consul_endpoint
register_service_fallback(r) ==
    consul_request([Req(r.op, "register", consul_endpoint) EXCEPT
        !.ctx = "fallback", !.body = r.body])

\* a deregistration that is PUT to consul_endpoint
deregister_service_at_cluster(op, agent_endpoint, service_id, ctx) ==
    consul_request([Req(op, "deregister", consul_endpoint) EXCEPT
        !.ctx = ctx, !.sid = service_id])

\* deregister_service: PUT <agent_endpoint>/v1/agent/service/deregister/<id>
deregister_service(op, agent_endpoint, service_id, ctx) ==
    consul_request([Req(op, "deregister", agent_endpoint) EXCEPT
        !.ctx = ctx, !.sid = service_id])

\* put_consul_kv: PUT <consul_endpoint>/v1/kv/<quote(key)>
put_consul_kv(op, key, value) ==
    consul_request([Req(op, "kv_put", consul_endpoint) EXCEPT
        !.key = Quote(key), !.val = value])

\* get_consul_kv_keys: GET <consul_endpoint>/v1/kv/<quote(path)>?keys[&separator=/]
get_consul_kv_keys(op, key_path, separator) ==
    consul_request([Req(op, "kv_keys", consul_endpoint) EXCEPT
        !.key = Quote(key_path), !.flag = separator])

\* delete_consul_kv_key: DELETE <consul_endpoint>/v1/kv/<quote(key)>[?recurse]
delete_consul_kv_key(op, key, recurse) ==
    consul_request([Req(op, "kv_delete", consul_endpoint) EXCEPT
        !.key = Quote(key), !.flag = recurse])

\* MarathonClient.get_apps: GET /v2/apps, field 'apps'
get_apps(op) == marathon_request([Req(op, "get_apps", marathon_endpoint) EXCEPT
                                     !.flag = TRUE])

\* MarathonClient.get_app: GET /v2/apps<app_id>, field 'app'
get_app(op, app_id) ==
    marathon_request([Req(op, "get_app", marathon_endpoint) EXCEPT
        !.app = app_id, !.flag = TRUE])

\* MarathonClient.get_app_tasks: GET /v2/apps<app_id>/tasks, field 'tasks'
get_app_tasks(op, app_id, raise_error) ==
    marathon_request([Req(op, "get_tasks", marathon_endpoint) EXCEPT
        !.app = app_id, !.flag = raise_error])

\* ------------------------------------------------------------------------
\* What Consul and Marathon do with a request
\* ------------------------------------------------------------------------

\* Consul agent: register replaces the service with the same ID
AgentRegister(services, body) ==
    {s \in services : s.ID # body.ID} \cup {body}

\* Consul agent: deregister removes the service with that ID
AgentDeregister(services, sid) == {s \in services : s.ID # sid}

KvSet(store, key, value) ==
    [k \in DOMAIN store \cup {key} |-> IF k = key THEN value ELSE store[k]]

\* Consul k/v DELETE: the key itself, or with ?recurse every key it prefixes
KvDelete(store, key, recurse) ==
    [k \in {j \in DOMAIN store :
               IF recurse THEN ~StartsWith(j, key) ELSE j # key} |-> store[k]]

\* the part of key up to and including the first '/' after the prefix
UpToSeparator(key, prefix) ==
    LET seps == {i \in (Len(prefix) + 1)..Len(key) : key[i] = "/"}
    IN  IF seps = {} THEN key
        ELSE SubSeq(key, 1, CHOOSE i \in seps : \A j \in seps : i <= j)

\* Consul k/v GET ?keys: the keys under the prefix; with separator=/ each is
\* cut after the first separator that follows the prefix
KvKeys(store, prefix, separator) ==
    LET under == {k \in DOMAIN store : StartsWith(k, prefix)}
    IN  IF separator THEN {UpToSeparator(k, prefix) : k \in under} ELSE under

\* Marathon GET /v2/apps: the apps, each with its id and labels
MarathonApps == {[id |-> a, labels |-> schedApps[a]] : a \in DOMAIN schedApps}

\* Marathon GET /v2/apps<app_id>/tasks
MarathonTasks(app_id) == {t \in schedTasks : t.app = app_id}

\* ------------------------------------------------------------------------
\* Calls on the bridge and their results
\* ------------------------------------------------------------------------

NoEvent == [eventType |-> "", taskStatus |-> "", appId |-> <<>>,
            taskId |-> "", host |-> ""]

\* A call: sync_apps(purge) or a POST to /events.  result is "pending" until
\* the Deferred of the call fires; code and body are the HTTP response to a
\* POST (klein answers 500 when the Deferred of a handler fails); v0 is
\* Marathon's version when the call started, and busy the calls that had
\* a registration still to come or unanswered when it started.
NewOp(type, purge, event) ==
    [type |-> type, purge |-> purge, event |-> event, result |-> "pending",
     code |-> 0, error |-> "", body |-> <<>>, v0 |-> schedVersion,
     kv0 |-> kv, agents0 |-> agents,
     busy |-> {r.op : r \in {q \in inflight :
                  q.kind \in {"get_apps", "get_app", "register"}
                  \/ (q.kind = "get_tasks" /\ q.ctx = "sync")}}]

\* the requests and purge groups a call still waits for
Outstanding(op, reqs, groups) ==
    {r \in reqs : r.op = op} \cup {g \in groups : g.op = op}

\* gatherResults (DeferredList with fireOnOneErrback): the Deferred of a
\* call fails at the first failure among the Deferreds it gathers, and
\* succeeds once all of them have succeeded
Gathered(o, op, failure, reqs, groups) ==
    IF o.result # "pending" THEN o
    ELSE IF failure # ""
         THEN [o EXCEPT !.result = "failed", !.error = failure,
                        !.code = IF o.type = "event" THEN 500 ELSE 0]
    ELSE IF Outstanding(op, reqs, groups) = {}
         THEN [o EXCEPT !.result = "ok",
                        !.code = IF o.type = "event" THEN 200 ELSE 0,
                        !.body = IF o.type = "event" THEN <<"status", "ok">>
                                 ELSE <<>>]
    ELSE o

\* The bookkeeping every callback shares: request r has been answered, the
\* requests new are issued from its callbacks, failure names the exception
\* its callback chain ended with ("" when none), groups are the purge groups
\* left.
Answered(r, new, failure, groups) ==
    /\ inflight' = (inflight \ {r}) \cup new
    /\ sent' = sent (+) SetToBag(new)
    /\ loops' = groups
    /\ ops' = [ops EXCEPT ![r.op] =
                  Gathered(@, r.op, failure, (inflight \ {r}) \cup new, groups)]

\* an answer other than "ok" is a fault; a run has at most limit.faults
Fault(r, o) ==
    /\ o # "ok" => Cardinality(failures) < limit.faults
    /\ failures' = IF o = "ok" THEN failures
                   ELSE failures \cup {[r |-> r, o |-> o]}

WriteOutcomes == {"ok", "http_error", "failure"}
ReadOutcomes == {"ok", "failure"}

\* JsonClient.request errback + _basic_get_request: log.err swallows a
\* transport failure, response_json then fails on None; _get_json_field
\* raises KeyError on a body without the field when raise_error is set and
\* returns None otherwise.  Gives the exception, or "" when a value results.
MarathonError(o, raise_error) ==
    CASE o = "failure" -> "AttributeError"
      [] o \in {"http_error", "not_found"} /\ raise_error -> "KeyError"
      [] OTHER -> ""

\* ------------------------------------------------------------------------
\* sync_apps
\* ------------------------------------------------------------------------

\* check_apps_namespace_clash: the app names that more than one app id of
\* the list maps to
Collisions(apps) ==
    {name \in {get_app_name(a.id) : a \in apps} :
        Cardinality({a \in apps : get_app_name(a.id) = name}) > 1}

\* a clash check that groups the apps by id instead of by name
check_apps_namespace_clash_by_id(apps) ==
    \E a \in apps : Cardinality({b \in apps : b.id = a.id}) > 1

check_apps_namespace_clash(apps) == Collisions(apps) # {}

\* put_consul_app_labels / put_consul_kvs: one PUT per label
put_consul_app_labels(op, app_name, labels) ==
    {put_consul_kv(op, LabelKey(app_name, key), labels[key]) :
        key \in DOMAIN labels}

\* clean_consul_app_labels: list the keys of the app; the labels are kept for
\* _filter_marathon_labels
clean_consul_app_labels(op, app_name, labels) ==
    [get_consul_kv_keys(op, AppKeysPath(app_name), FALSE) EXCEPT
        !.ctx = "clean", !.labels = DOMAIN labels]

\* sync_app_labels: put and clean, gathered
sync_app_labels(op, app) ==
    put_consul_app_labels(op, get_app_name(app.id), app.labels)
    \cup {clean_consul_app_labels(op, get_app_name(app.id), app.labels)}

\* sync_app_tasks: the task list is fetched first
sync_app_tasks(op, app) ==
    [get_app_tasks(op, app.id, TRUE) EXCEPT !.ctx = "sync"]

\* sync_app: labels and tasks, gathered
sync_app(op, app) == sync_app_labels(op, app) \cup {sync_app_tasks(op, app)}

\* purge_dead_services: the node list is fetched first
purge_dead_services(op) ==
    consul_request(Req(op, "nodes", consul_endpoint))

\* purge_dead_app_labels: list 'consular/' with separator '/'; the apps are
\* kept for _filter_marathon_apps
purge_dead_app_labels(op, apps) ==
    [get_consul_kv_keys(op, ConsularDir, TRUE) EXCEPT
        !.ctx = "purge_labels", !.apps = {a.id : a \in apps}]

\* purge_dead_apps
purge_dead_apps(op, apps) ==
    {purge_dead_services(op), purge_dead_app_labels(op, apps)}

\* sync_and_purge_apps
sync_and_purge_apps(op, apps, purge) ==
    UNION {sync_app(op, app) : app \in apps}
    \cup (IF purge THEN purge_dead_apps(op, apps) ELSE {})

\* sync_apps(purge) is called: GET /v2/apps is issued
StartSync(purge) ==
    /\ Len(ops) < limit.ops
    /\ ops' = Append(ops, NewOp("sync", purge, NoEvent))
    /\ inflight' = inflight \cup {get_apps(Len(ops) + 1)}
    /\ sent' = sent (+) SetToBag({get_apps(Len(ops) + 1)})
    /\ UNCHANGED <<config, marathon, agents, kv, loops, failures>>

\* the answer to GET /v2/apps: check_apps_namespace_clash, then
\* sync_and_purge_apps
SyncGotApps(r, o) ==
    /\ r.kind = "get_apps"
    /\ o \in {"ok", "http_error", "failure"}
    /\ Fault(r, o)
    /\ LET err == MarathonError(o, r.flag)
           clash == err = "" /\ check_apps_namespace_clash(MarathonApps)
           new == IF err # "" \/ clash THEN {}
                  ELSE sync_and_purge_apps(r.op, MarathonApps,
                                           ops[r.op].purge)
       IN  Answered(r, new, IF clash THEN "NamespaceClash" ELSE err, loops)
    /\ UNCHANGED <<config, marathon, agents, kv>>

\* the answers Marathon can give about one app: its data when the app
\* exists, else 404 with a JSON message; or an error
AppOutcome(r, app_id, o) ==
    /\ o \in {"ok", "not_found", "http_error", "failure"}
    /\ o = "ok" => app_id \in DOMAIN schedApps
    /\ o = "not_found" => app_id \notin DOMAIN schedApps
    /\ o \notin {"ok", "not_found"} => Cardinality(failures) < limit.faults
    /\ failures' = IF o \in {"ok", "not_found"} THEN failures
                   ELSE failures \cup {[r |-> r, o |-> o]}

\* sync_app_task: register the task at the agent of its host
sync_app_task(op, app_id, task) ==
    register_service(op, get_agent_endpoint(task.host), app_id, task.id,
                     task.host, task.ports[1])

\* the callback of sync_app_tasks: one register per task of the answer
\* a handler that registers the task its event names instead of the tasks
\* Marathon lists
SyncGotTasksFromEvent(r, o) ==
    /\ r.kind = "get_tasks" /\ r.ctx = "sync"
    /\ AppOutcome(r, r.app, o)
    /\ LET err == MarathonError(o, r.flag)
           event == ops[r.op].event
           new == IF err # "" THEN {}
                  ELSE IF ops[r.op].type = "event"
                  THEN {register_service(r.op, get_agent_endpoint(event.host),
                                         r.app, event.taskId, event.host, 1)}
                  ELSE {sync_app_task(r.op, r.app, t) :
                           t \in MarathonTasks(r.app)}
       IN  Answered(r, new, err, loops)
    /\ UNCHANGED <<config, marathon, agents, kv>>

SyncGotTasks(r, o) ==
    /\ r.kind = "get_tasks" /\ r.ctx = "sync"
    /\ AppOutcome(r, r.app, o)
    /\ LET err == MarathonError(o, r.flag)
           new == IF err # "" THEN {}
                  ELSE {sync_app_task(r.op, r.app, t) :
                           t \in MarathonTasks(r.app)}
       IN  Answered(r, new, err, loops)
    /\ UNCHANGED <<config, marathon, agents, kv>>

\* the answer to a register sent to a task's agent; register_service adds
\* register_service_fallback as errback only when enable_fallback is set.
\* A non-2xx answer is a response like any other to treq: no errback runs.
RegisterAnswered(r, o) ==
    /\ r.kind = "register" /\ r.ctx = "agent"
    /\ o \in WriteOutcomes
    /\ Fault(r, o)
    /\ agents' = IF o = "ok"
                 THEN [agents EXCEPT ![AgentAt(r.host)] = AgentRegister(@, r.body)]
                 ELSE agents
    /\ LET retry == o = "failure" /\ enable_fallback
       IN  Answered(r, IF retry THEN {register_service_fallback(r)} ELSE {},
                    IF o = "failure" /\ ~retry THEN "UpstreamError" ELSE "",
                    loops)
    /\ UNCHANGED <<config, marathon, kv>>

\* the answer to the register sent to consul_endpoint as fallback
FallbackAnswered(r, o) ==
    /\ r.kind = "register" /\ r.ctx = "fallback"
    /\ o \in WriteOutcomes
    /\ Fault(r, o)
    /\ agents' = IF o = "ok"
                 THEN [agents EXCEPT ![AgentAt(r.host)] = AgentRegister(@, r.body)]
                 ELSE agents
    /\ Answered(r, {}, IF o = "failure" THEN "UpstreamError" ELSE "", loops)
    /\ UNCHANGED <<config, marathon, kv>>

\* the answer to a k/v PUT
KvPutAnswered(r, o) ==
    /\ r.kind = "kv_put"
    /\ o \in WriteOutcomes
    /\ Fault(r, o)
    /\ kv' = IF o = "ok" THEN KvSet(kv, Unquote(r.key), r.val) ELSE kv
    /\ Answered(r, {}, IF o = "failure" THEN "UpstreamError" ELSE "", loops)
    /\ UNCHANGED <<config, marathon, agents>>

\* the answer to a k/v DELETE
KvDeleteAnswered(r, o) ==
    /\ r.kind = "kv_delete"
    /\ o \in WriteOutcomes
    /\ Fault(r, o)
    /\ kv' = IF o = "ok" THEN KvDelete(kv, Unquote(r.key), r.flag) ELSE kv
    /\ Answered(r, {}, IF o = "failure" THEN "UpstreamError" ELSE "", loops)
    /\ UNCHANGED <<config, marathon, agents>>

\* _consul_key_to_marathon_label_key: consul_key.split('/', 2)[-1]
_consul_key_to_marathon_label_key(consul_key) == SplitLast(consul_key, "/", 2)

\* _filter_marathon_labels: the keys whose label key is not a Marathon label
_filter_marathon_labels(consul_keys, label_key_set) ==
    {key \in consul_keys :
        _consul_key_to_marathon_label_key(key) \notin label_key_set}

\* delete_consul_kv_keys: one DELETE per key
delete_consul_kv_keys(op, keys, recurse) ==
    {delete_consul_kv_key(op, key, recurse) : key \in keys}

\* the callbacks of clean_consul_app_labels on the key listing of one app
CleanGotKeys(r, o) ==
    /\ r.kind = "kv_keys" /\ r.ctx = "clean"
    /\ o \in ReadOutcomes
    /\ Fault(r, o)
    /\ LET keys == KvKeys(kv, Unquote(r.key), r.flag)
           new == IF o # "ok" THEN {}
                  ELSE delete_consul_kv_keys(
                           r.op, _filter_marathon_labels(keys, r.labels),
                           FALSE)
       IN  Answered(r, new, IF o = "ok" THEN "" ELSE "UpstreamError", loops)
    /\ UNCHANGED <<config, marathon, agents, kv>>

\* _consul_key_to_marathon_app_name: consul_key.split('/', 1)[-1]
_consul_key_to_marathon_app_name(consul_key) == SplitLast(consul_key, "/", 1)

\* _filter_marathon_apps: the keys whose app name is not that of a Marathon
\* app
_filter_marathon_apps(consul_keys, marathon_app_ids) ==
    LET app_name_set == {get_app_name(a) : a \in marathon_app_ids}
    IN  {key \in consul_keys :
            _consul_key_to_marathon_app_name(key) \notin app_name_set}

\* the callbacks of purge_dead_app_labels on the listing of 'consular/'
PurgeLabelsGotKeys(r, o) ==
    /\ r.kind = "kv_keys" /\ r.ctx = "purge_labels"
    /\ o \in ReadOutcomes
    /\ Fault(r, o)
    /\ LET keys == KvKeys(kv, Unquote(r.key), r.flag)
           new == IF o # "ok" THEN {}
                  ELSE delete_consul_kv_keys(
                           r.op, _filter_marathon_apps(keys, r.apps), TRUE)
       IN  Answered(r, new, IF o = "ok" THEN "" ELSE "UpstreamError", loops)
    /\ UNCHANGED <<config, marathon, agents, kv>>

\* ------------------------------------------------------------------------
\* Purge of dead services
\* ------------------------------------------------------------------------

\* the nodes of GET /v1/catalog/nodes: every host that runs an agent
CatalogNodes == Hosts

\* the callback of purge_dead_services: one purge_dead_agent_services per
\* node, each starting with GET <agent>/v1/agent/services
GotNodes(r, o) ==
    /\ r.kind = "nodes"
    /\ o \in ReadOutcomes
    /\ Fault(r, o)
    /\ LET new == IF o # "ok" THEN {}
                  ELSE {consul_request(Req(r.op, "services",
                                           get_agent_endpoint(node))) :
                           node \in CatalogNodes}
       IN  Answered(r, new, IF o = "ok" THEN "" ELSE "UpstreamError", loops)
    /\ UNCHANGED <<config, marathon, agents, kv>>

\* a selection that takes every tagged service, whoever registered it
AnyTaggedServices(data) == {s \in data : s.Tags # <<>>}

\* purge_dead_agent_services: the services that carry the reg-id tag
OurServices(data) ==
    {s \in data : s.Tags # <<>> /\ InList(reg_id_tag, s.Tags)}

\* Python truth of the value get_app_id_from_tags returns
Truthy(app_id) == app_id # None /\ app_id # <<>>

\* purge_dead_agent_services: the dict app id -> service ids, as a set of
\* groups; services with the reg-id tag and no app id are left out
ServiceGroups(op, agent_endpoint, data) ==
    {[op |-> op, host |-> agent_endpoint, app |-> app_id,
      sids |-> {s.ID : s \in {x \in OurServices(data) :
                                  get_app_id_from_tags(x.Tags) = app_id}}] :
        app_id \in {a \in {get_app_id_from_tags(s.Tags) :
                              s \in OurServices(data)} : Truthy(a)}}

NoGroup == [op |-> 0, host |-> "", app |-> <<>>, sids |-> {}]

\* the groups purge_dead_agent_services of (op, host) has not reached yet
PendingGroups(op, host, groups) ==
    {g \in groups : g.op = op /\ g.host = host}

\* the next iteration of the for loop over services.items(): any of the
\* groups left (a dict has no order the code controls), or none
NextGroups(advance, candidates) ==
    IF advance /\ candidates # {} THEN candidates ELSE {NoGroup}

\* purge_service_if_dead: the tasks of the app are fetched first, not
\* raising on a missing 'tasks' field
purge_service_if_dead(g) ==
    IF g = NoGroup THEN {}
    ELSE {[get_app_tasks(g.op, g.app, FALSE) EXCEPT
              !.ctx = "purge", !.agent = g.host, !.sids = g.sids]}

\* purge_dead_agent_services after the answer to GET /v1/agent/services:
\* group the tagged services by app id, then purge the first group
GotAgentServices(r, o) ==
    /\ r.kind = "services"
    /\ o \in ReadOutcomes
    /\ Fault(r, o)
    /\ LET data == agents[AgentAt(r.host)]
           raises == \E s \in OurServices(data) :
                         FindTagRaises(s.Tags, AppIdName)
           groups == IF o # "ok" \/ raises THEN {}
                     ELSE ServiceGroups(r.op, r.host, data)
       IN  \E g \in NextGroups(TRUE, groups) :
               Answered(r, purge_service_if_dead(g),
                        CASE o # "ok" -> "UpstreamError"
                          [] raises -> "RuntimeError"
                          [] OTHER -> "",
                        loops \cup (groups \ {g}))
    /\ UNCHANGED <<config, marathon, agents, kv>>

\* a filter that keeps every service when the task list is None or empty
_filter_marathon_tasks_keep(marathon_tasks, consul_service_ids) ==
    {sid \in consul_service_ids :
        marathon_tasks # {} /\ sid \notin {t.id : t \in marathon_tasks}}

\* _filter_marathon_tasks: every service id when the task list is None or
\* empty, else the service ids that are no task id of the list
\* a filter that gives back every service id whatever Marathon lists
_filter_marathon_tasks_all(marathon_tasks, consul_service_ids) ==
    consul_service_ids

_filter_marathon_tasks(marathon_tasks, consul_service_ids) ==
    IF marathon_tasks = {} THEN consul_service_ids
    ELSE {sid \in consul_service_ids :
             sid \notin {t.id : t \in marathon_tasks}}

\* the callbacks of purge_service_if_dead on the task list: deregister the
\* service ids left by _filter_marathon_tasks; with none left the loop of
\* purge_dead_agent_services goes on at once
PurgeGotTasks(r, o) ==
    /\ r.kind = "get_tasks" /\ r.ctx = "purge"
    /\ AppOutcome(r, r.app, o)
    /\ LET err == MarathonError(o, r.flag)
           tasks == IF o = "ok" THEN MarathonTasks(r.app) ELSE {}
           dead == IF err # "" THEN {}
                   ELSE _filter_marathon_tasks(tasks, r.sids)
           pending == PendingGroups(r.op, r.agent, loops)
       IN  \E g \in NextGroups(err = "" /\ dead = {}, pending) :
               Answered(r,
                        {deregister_service(r.op, r.agent, sid, "purge") :
                            sid \in dead} \cup purge_service_if_dead(g),
                        err,
                        IF err # "" THEN loops \ pending ELSE loops \ {g})
    /\ UNCHANGED <<config, marathon, agents, kv>>

\* the answer to a deregister.  One sent by the purge belongs to the group
\* purge_dead_agent_services is waiting on: when the last of the group has
\* succeeded the loop goes on, and a failure ends the loop.
DeregisterAnswered(r, o) ==
    /\ r.kind = "deregister"
    /\ o \in WriteOutcomes
    /\ Fault(r, o)
    /\ agents' = IF o = "ok"
                 THEN [agents EXCEPT ![AgentAt(r.host)] = AgentDeregister(@, r.sid)]
                 ELSE agents
    /\ LET pending == IF r.ctx = "purge"
                      THEN PendingGroups(r.op, r.host, loops) ELSE {}
           siblings == {q \in inflight \ {r} :
                           /\ q.op = r.op /\ q.kind = "deregister"
                           /\ q.ctx = "purge" /\ q.host = r.host}
       IN  \E g \in NextGroups(o # "failure" /\ siblings = {}, pending) :
               Answered(r, purge_service_if_dead(g),
                        IF o = "failure" THEN "UpstreamError" ELSE "",
                        IF o = "failure" THEN loops \ pending
                        ELSE loops \ {g})
    /\ UNCHANGED <<config, marathon, kv>>

\* ------------------------------------------------------------------------
\* POST /events
\* ------------------------------------------------------------------------

\* an event that has no 'eventType' field: event.get('eventType') is None
Absent == "<absent>"

\* a formatting that prints a missing eventType as the empty string
FormatEventTypeEmpty(event_type) ==
    IF event_type = Absent THEN "" ELSE event_type

\* '%s' % (event_type,)
FormatEventType(event_type) ==
    IF event_type = Absent THEN "None" ELSE event_type

\* Consular.event_dispatch
event_dispatch == {"status_update_event"}

\* the dispatch table of handle_status_update_event
NoopStatuses == {"TASK_STAGING", "TASK_STARTING"}
\* a dispatch table that also syncs the app of a task that is starting
RunningStatusesWithStarting == {"TASK_RUNNING", "TASK_STARTING"}
RunningStatuses == {"TASK_RUNNING"}
KilledStatuses == {"TASK_FINISHED", "TASK_FAILED", "TASK_KILLED", "TASK_LOST"}

\* the events Marathon may post
Statuses == NoopStatuses \cup RunningStatuses \cup KilledStatuses
EventTypes == {"status_update_event", "Foo", Absent}
StatusEvent(ty, st, t) ==
    [eventType |-> ty, taskStatus |-> st, appId |-> t.app, taskId |-> t.id,
     host |-> t.host]
Events ==
    {StatusEvent("status_update_event", st, t) :
        st \in Statuses, t \in TaskUniverse}
    \cup {StatusEvent(ty, st, T1) :
             ty \in EventTypes \ event_dispatch,
             st \in {"TASK_RUNNING", "TASK_KILLED"}}

\* events -> handle_unknown_event: 400 and the error body, no Deferred
handle_unknown_event(event) ==
    /\ Len(ops) < limit.ops
    /\ event.eventType \notin event_dispatch
    /\ ops' = Append(ops,
           [NewOp("event", FALSE, event) EXCEPT
               !.result = "bad_request", !.code = 400,
               !.body = <<"error", "Event type ",
                          FormatEventType(event.eventType),
                          " not supported.">>])
    /\ UNCHANGED <<config, marathon, agents, kv, inflight, loops, sent, failures>>

\* events -> handle_status_update_event -> noop: succeed({'status': 'ok'})
noop(event) ==
    /\ Len(ops) < limit.ops
    /\ event.eventType \in event_dispatch
    /\ event.taskStatus \in NoopStatuses
    /\ ops' = Append(ops,
           [NewOp("event", FALSE, event) EXCEPT
               !.result = "ok", !.code = 200, !.body = <<"status", "ok">>])
    /\ UNCHANGED <<config, marathon, agents, kv, inflight, loops, sent, failures>>

\* events -> handle_status_update_event -> update_task_running:
\* GET /v2/apps<appId> is issued
update_task_running(event) ==
    /\ Len(ops) < limit.ops
    /\ event.eventType \in event_dispatch
    /\ event.taskStatus \in RunningStatuses
    /\ ops' = Append(ops, NewOp("event", FALSE, event))
    /\ LET new == {get_app(Len(ops) + 1, event.appId)}
       IN  /\ inflight' = inflight \cup new
           /\ sent' = sent (+) SetToBag(new)
    /\ UNCHANGED <<config, marathon, agents, kv, loops, failures>>

\* the callback of update_task_running on the app: sync_app(app)
RunningGotApp(r, o) ==
    /\ r.kind = "get_app"
    /\ AppOutcome(r, r.app, o)
    /\ LET err == MarathonError(o, r.flag)
           new == IF err # "" THEN {}
                  ELSE sync_app(r.op, [id |-> r.app,
                                       labels |-> schedApps[r.app]])
       IN  Answered(r, new, err, loops)
    /\ UNCHANGED <<config, marathon, agents, kv>>

\* events -> handle_status_update_event -> update_task_killed: the service
\* named by the event's taskId is deregistered at the event's host
update_task_killed(event) ==
    /\ Len(ops) < limit.ops
    /\ event.eventType \in event_dispatch
    /\ event.taskStatus \in KilledStatuses
    /\ ops' = Append(ops, NewOp("event", FALSE, event))
    /\ LET new == {deregister_service(Len(ops) + 1,
                                      get_agent_endpoint(event.host),
                                      event.taskId, "event")}
       IN  /\ inflight' = inflight \cup new
           /\ sent' = sent (+) SetToBag(new)
    /\ UNCHANGED <<config, marathon, agents, kv, loops, failures>>

\* ------------------------------------------------------------------------
\* Marathon changes on its own
\* ------------------------------------------------------------------------

\* a task ends, a task of an existing app starts, or an app is removed
\* together with its tasks
MarathonChanges ==
    /\ schedVersion < limit.changes
    /\ schedVersion' = schedVersion + 1
    /\ \/ \E t \in schedTasks :
             /\ schedTasks' = schedTasks \ {t}
             /\ UNCHANGED schedApps
       \/ \E t \in TaskUniverse \ schedTasks :
             /\ t.app \in DOMAIN schedApps
             /\ schedTasks' = schedTasks \cup {t}
             /\ UNCHANGED schedApps
       \/ \E a \in DOMAIN schedApps :
             /\ schedApps' = [b \in DOMAIN schedApps \ {a} |-> schedApps[b]]
             /\ schedTasks' = {t \in schedTasks : t.app # a}
    /\ UNCHANGED <<config, subscriptions, agents, kv, ops, inflight, loops,
                   sent, failures>>

\* ------------------------------------------------------------------------
\* Initial states
\* ------------------------------------------------------------------------

NoLabels == [k \in {} |-> "v1"]
LabelX == [k \in {<<"x">>} |-> "v1"]

\* the reg-id tag of another bridge
OtherRegIdTag == _consular_tag(RegIdName, <<"q">>)

\* services an agent may hold at the start: a registration this bridge made
\* for a task, one another bridge made for the same task, and services
\* carrying this bridge's reg-id tag with no or two app-id tags
Registered(t) ==
    _create_service_registration(t.app, t.id, t.host, t.ports[1])
Foreign(t) ==
    [Registered(t) EXCEPT !.Tags = <<OtherRegIdTag, app_id_tag(t.app)>>]
Orphan == [Registered(T1) EXCEPT !.ID = "t0"]
NoAppTag == [Registered(T1) EXCEPT !.ID = "s1", !.Tags = <<reg_id_tag>>]
TwoAppTags ==
    [Registered(T1) EXCEPT !.ID = "s2",
        !.Tags = <<reg_id_tag, app_id_tag(A1), app_id_tag(A2)>>]

NoServices == [h \in Hosts |-> {}]
EmptyStore == [k \in {} |-> "v0"]
StoreOf(keys) == [k \in keys |-> "v0"]
KeyOf(app_id, label) == LabelKey(get_app_name(app_id), label)

\* The worlds a run starts in: Marathon's apps (with labels) and tasks, the
\* services of the agents, the k/v store.
Worlds ==
    {\* Marathon is empty; a task registered earlier and its label are left
     [apps |-> [a \in {} |-> NoLabels], tasks |-> {},
      agents |-> [NoServices EXCEPT !["h1"] = {Registered(T1)}],
      kv |-> StoreOf({KeyOf(A1, <<"x">>)})],
     \* one app and task; another bridge registered the same task id
     [apps |-> [a \in {A1} |-> LabelX], tasks |-> {T1},
      agents |-> [NoServices EXCEPT !["h1"] = {Foreign(T1)},
                                    ![ConsulHost] = {Foreign(T2)}],
      kv |-> StoreOf({KeyOf(A1, <<"y">>)})],
     \* two apps, the name of one a prefix of the other's; nothing registered
     [apps |-> [a \in {A1, A2} |-> IF a = A1 THEN NoLabels ELSE LabelX],
      tasks |-> {T1, T2},
      agents |-> NoServices,
      kv |-> StoreOf({KeyOf(A2, <<"x">>)})],
     \* two apps; a task of the first has ended and is still registered
     [apps |-> [a \in {A1, A2} |-> LabelX], tasks |-> {T2},
      agents |-> [NoServices EXCEPT !["h1"] = {Registered(T1),
                                                Registered(T2)}],
      kv |-> EmptyStore],
     \* two apps with the same app name
     [apps |-> [a \in {A2, A3} |-> LabelX], tasks |-> {T2},
      agents |-> NoServices,
      kv |-> EmptyStore],
     \* a tagged service without app id beside the service of a removed app
     [apps |-> [a \in {A1} |-> LabelX], tasks |-> {T1},
      agents |-> [NoServices EXCEPT !["h1"] = {NoAppTag, Registered(T2)}],
      kv |-> EmptyStore],
     \* a tagged service with two app ids beside an ended task's service
     [apps |-> [a \in {A1} |-> NoLabels], tasks |-> {T1},
      agents |-> [NoServices EXCEPT !["h1"] = {TwoAppTags, Orphan}],
      kv |-> EmptyStore],
     \* services of two apps at one agent, and one registered by fallback
     [apps |-> [a \in {A1} |-> NoLabels], tasks |-> {T1},
      agents |-> [NoServices EXCEPT !["h1"] = {Orphan, Registered(T2)},
                                    ![ConsulHost] = {Registered(T1)}],
      kv |-> EmptyStore]}

\* the start of a run in one of the worlds, under the given bounds, with
\* Marathon's subscription list one of lists
InitWorld(worlds, bounds, lists) ==
    /\ limit = bounds
    /\ subscriptions \in lists
    /\ enable_fallback \in BOOLEAN
    /\ \E w \in worlds :
          /\ schedApps = w.apps
          /\ schedTasks = w.tasks
          /\ agents = w.agents
          /\ kv = w.kv
    /\ schedVersion = 0
    /\ ops = <<>>
    /\ inflight = {}
    /\ loops = {}
    /\ sent = EmptyBag
    /\ failures = {}

Init ==
    InitWorld(Worlds, [ops |-> MaxOps, faults |-> MaxFaults, changes |-> 0],
              {{}})

\* ------------------------------------------------------------------------
\* Next-state relation
\* ------------------------------------------------------------------------

Outcomes == {"ok", "not_found", "http_error", "failure"}

\* a call is made on the bridge
Call ==
    \/ \E purge \in BOOLEAN : StartSync(purge)
    \/ \E event \in Events : handle_unknown_event(event)
    \/ \E event \in Events : noop(event)
    \/ \E event \in Events : update_task_running(event)
    \/ \E event \in Events : update_task_killed(event)

\* a request is answered and the callbacks on its Deferred run
Answer ==
    \/ \E r \in inflight, o \in Outcomes : SyncGotApps(r, o)
    \/ \E r \in inflight, o \in Outcomes : RunningGotApp(r, o)
    \/ \E r \in inflight, o \in Outcomes : SyncGotTasks(r, o)
    \/ \E r \in inflight, o \in Outcomes : RegisterAnswered(r, o)
    \/ \E r \in inflight, o \in Outcomes : FallbackAnswered(r, o)
    \/ \E r \in inflight, o \in Outcomes : KvPutAnswered(r, o)
    \/ \E r \in inflight, o \in Outcomes : KvDeleteAnswered(r, o)
    \/ \E r \in inflight, o \in Outcomes : CleanGotKeys(r, o)
    \/ \E r \in inflight, o \in Outcomes : PurgeLabelsGotKeys(r, o)
    \/ \E r \in inflight, o \in Outcomes : GotNodes(r, o)
    \/ \E r \in inflight, o \in Outcomes : GotAgentServices(r, o)
    \/ \E r \in inflight, o \in Outcomes : PurgeGotTasks(r, o)
    \/ \E r \in inflight, o \in Outcomes : DeregisterAnswered(r, o)

Next == Call \/ Answer

\* one call on the bridge, from any of the worlds
Spec == Init /\ [][Next]_vars

\* registrations only: syncs without purge and TASK_RUNNING events, with
\* room for the agent and the fallback registration to fail both
MaxRegisterFaults == 2

InitRegister ==
    InitWorld(Worlds, [ops |-> MaxOps, faults |-> MaxRegisterFaults,
                       changes |-> 0], {{}})

NextRegister ==
    \/ StartSync(FALSE)
    \/ \E event \in Events : update_task_running(event)
    \/ \E r \in inflight, o \in Outcomes : SyncGotApps(r, o)
    \/ \E r \in inflight, o \in Outcomes : RunningGotApp(r, o)
    \/ \E r \in inflight, o \in Outcomes : SyncGotTasks(r, o)
    \/ \E r \in inflight, o \in Outcomes : RegisterAnswered(r, o)
    \/ \E r \in inflight, o \in Outcomes : FallbackAnswered(r, o)
    \/ \E r \in inflight, o \in Outcomes : KvPutAnswered(r, o)
    \/ \E r \in inflight, o \in Outcomes : KvDeleteAnswered(r, o)
    \/ \E r \in inflight, o \in Outcomes : CleanGotKeys(r, o)

SpecRegister == InitRegister /\ [][NextRegister]_vars

\* events only: TASK_RUNNING and task-ending events for tasks Marathon
\* runs, two handlers at a time, with room for one request to fail; no
\* service is registered at the agent behind consul_endpoint at the start
MaxEvents == 2

InitEvents ==
    InitWorld({w \in Worlds : w.tasks # {} /\ w.agents[ConsulHost] = {}},
              [ops |-> MaxEvents, faults |-> MaxFaults, changes |-> 0],
              {{}})

NextEvents ==
    \/ \E event \in Events : update_task_running(event)
    \/ \E event \in Events : update_task_killed(event)
    \/ \E r \in inflight, o \in Outcomes : RunningGotApp(r, o)
    \/ \E r \in inflight, o \in Outcomes : SyncGotTasks(r, o)
    \/ \E r \in inflight, o \in Outcomes : RegisterAnswered(r, o)
    \/ \E r \in inflight, o \in Outcomes : FallbackAnswered(r, o)
    \/ \E r \in inflight, o \in Outcomes : KvPutAnswered(r, o)
    \/ \E r \in inflight, o \in Outcomes : KvDeleteAnswered(r, o)
    \/ \E r \in inflight, o \in Outcomes : CleanGotKeys(r, o)
    \/ \E r \in inflight, o \in Outcomes : DeregisterAnswered(r, o)

SpecEvents == InitEvents /\ [][NextEvents]_vars

\* the TASK_RUNNING and the TASK_KILLED event of one task are handled at
\* the same time while Marathon changes, and a purging sync is called once
\* the handlers have answered; no request fails
MaxRaceOps == 3
MaxRaceChanges == 1

RaceEvents ==
    {StatusEvent("status_update_event", st, T1) :
        st \in {"TASK_RUNNING", "TASK_KILLED"}}

InitRace ==
    InitWorld({w \in Worlds : w.tasks = {T1}},
              [ops |-> MaxRaceOps, faults |-> 0, changes |-> MaxRaceChanges],
              {{}})

NextRace ==
    \/ \E event \in RaceEvents :
          /\ Len(ops) < 2
          /\ \A i \in DOMAIN ops : ops[i].event # event
          /\ update_task_running(event)
    \/ \E event \in RaceEvents :
          /\ Len(ops) < 2
          /\ \A i \in DOMAIN ops : ops[i].event # event
          /\ update_task_killed(event)
    \/ (Len(ops) <= 2 /\ MarathonChanges)
    \/ (inflight = {} /\ Len(ops) = 2 /\ StartSync(TRUE))
    \/ \E r \in inflight, o \in Outcomes : RunningGotApp(r, o)
    \/ \E r \in inflight, o \in Outcomes : SyncGotApps(r, o)
    \/ \E r \in inflight, o \in Outcomes : SyncGotTasks(r, o)
    \/ \E r \in inflight, o \in Outcomes : RegisterAnswered(r, o)
    \/ \E r \in inflight, o \in Outcomes : KvPutAnswered(r, o)
    \/ \E r \in inflight, o \in Outcomes : KvDeleteAnswered(r, o)
    \/ \E r \in inflight, o \in Outcomes : CleanGotKeys(r, o)
    \/ \E r \in inflight, o \in Outcomes : PurgeLabelsGotKeys(r, o)
    \/ \E r \in inflight, o \in Outcomes : GotNodes(r, o)
    \/ \E r \in inflight, o \in Outcomes : GotAgentServices(r, o)
    \/ \E r \in inflight, o \in Outcomes : PurgeGotTasks(r, o)
    \/ \E r \in inflight, o \in Outcomes : DeregisterAnswered(r, o)

SpecRace == InitRace /\ [][NextRace]_vars

\* sync_apps is called again once the call before it has come to rest;
\* Marathon does not change and no request fails
MaxSyncs == 2

InitTwice ==
    /\ InitWorld(Worlds, [ops |-> MaxSyncs, faults |-> 0, changes |-> 0],
                 {{}})
    /\ enable_fallback

NextTwice ==
    \/ \E purge \in BOOLEAN :
          /\ inflight = {} /\ loops = {}
          /\ StartSync(purge)
    \/ \E r \in inflight, o \in Outcomes : SyncGotApps(r, o)
    \/ \E r \in inflight, o \in Outcomes : SyncGotTasks(r, o)
    \/ \E r \in inflight, o \in Outcomes : RegisterAnswered(r, o)
    \/ \E r \in inflight, o \in Outcomes : KvPutAnswered(r, o)
    \/ \E r \in inflight, o \in Outcomes : KvDeleteAnswered(r, o)
    \/ \E r \in inflight, o \in Outcomes : CleanGotKeys(r, o)
    \/ \E r \in inflight, o \in Outcomes : PurgeLabelsGotKeys(r, o)
    \/ \E r \in inflight, o \in Outcomes : GotNodes(r, o)
    \/ \E r \in inflight, o \in Outcomes : GotAgentServices(r, o)
    \/ \E r \in inflight, o \in Outcomes : PurgeGotTasks(r, o)
    \/ \E r \in inflight, o \in Outcomes : DeregisterAnswered(r, o)

SpecTwice == InitTwice /\ [][NextTwice]_vars

\* one sync without purge over two apps whose ids are any strings that
\* begin with "/"; nothing is registered or stored and no request fails
MaxIdLen == 3
IdChars == {"/", "a", "=", "-"}
IdUniverse ==
    {id \in UNION {[1..n -> IdChars] : n \in 2..MaxIdLen} : id[1] = "/"}

NameWorlds ==
    {[apps |-> [a \in {x, y} |-> NoLabels],
      tasks |-> {},
      agents |-> NoServices,
      kv |-> EmptyStore] : x, y \in IdUniverse}

InitNames ==
    /\ InitWorld(NameWorlds, [ops |-> 1, faults |-> 0, changes |-> 0], {{}})
    /\ enable_fallback

NextNames ==
    \/ StartSync(FALSE)
    \/ \E r \in inflight, o \in Outcomes : SyncGotApps(r, o)
    \/ \E r \in inflight, o \in Outcomes : SyncGotTasks(r, o)
    \/ \E r \in inflight, o \in Outcomes : CleanGotKeys(r, o)

SpecNames == InitNames /\ [][NextNames]_vars

\* one purging sync over an app whose id is any string that begins with
\* "/": the worker's agent holds the service of the app's task and the
\* service of an ended task, both tagged with the app id; no request fails
TaskOf(app_id) == [T1 EXCEPT !.app = app_id]

EndedOf(app_id) ==
    [Registered(TaskOf(app_id)) EXCEPT
        !.ID = "t0",
        !.Tags = <<OtherRegIdTag, reg_id_tag, app_id_tag(app_id)>>]

TagWorlds ==
    {[apps |-> [a \in {x} |-> NoLabels],
      tasks |-> {TaskOf(x)},
      agents |-> [NoServices EXCEPT
                     !["h1"] = {Registered(TaskOf(x)), EndedOf(x)}],
      kv |-> EmptyStore] : x \in IdUniverse}

InitTags ==
    /\ InitWorld(TagWorlds, [ops |-> 1, faults |-> 0, changes |-> 0], {{}})
    /\ enable_fallback

NextTags ==
    \/ StartSync(TRUE)
    \/ \E r \in inflight, o \in Outcomes : SyncGotApps(r, o)
    \/ \E r \in inflight, o \in Outcomes : SyncGotTasks(r, o)
    \/ \E r \in inflight, o \in Outcomes : RegisterAnswered(r, o)
    \/ \E r \in inflight, o \in Outcomes : CleanGotKeys(r, o)
    \/ \E r \in inflight, o \in Outcomes : PurgeLabelsGotKeys(r, o)
    \/ \E r \in inflight, o \in Outcomes : GotNodes(r, o)
    \/ \E r \in inflight, o \in Outcomes : GotAgentServices(r, o)
    \/ \E r \in inflight, o \in Outcomes : PurgeGotTasks(r, o)
    \/ \E r \in inflight, o \in Outcomes : DeregisterAnswered(r, o)

SpecTags == InitTags /\ [][NextTags]_vars

\* ------------------------------------------------------------------------
\* register_marathon_event_callback
\* ------------------------------------------------------------------------

\* the callback URLs a call may be given or Marathon may hold
Urls == {"u1", "u2"}

\* MarathonClient.get_event_subscriptions: GET /v2/eventSubscriptions, field
\* 'callbackUrls'; val keeps the events_url the caller compares with
get_event_subscriptions(op, events_url) ==
    marathon_request([Req(op, "get_subscriptions", marathon_endpoint) EXCEPT
        !.flag = TRUE, !.val = events_url])

\* MarathonClient.post_event_subscription:
\* POST /v2/eventSubscriptions?callbackUrl=<url>
post_event_subscription(op, callback_url) ==
    marathon_request([Req(op, "post_subscription", marathon_endpoint) EXCEPT
        !.val = callback_url])

\* the answers Marathon can give to the POST, and their status codes
PostOutcomes == {"ok", "created", "http_error", "failure"}
StatusCode(o) ==
    CASE o = "ok" -> 200
      [] o = "created" -> 201
      [] o = "http_error" -> 500
      [] OTHER -> 0

\* a test that takes every 2xx status for success
response_ok_2xx(code) == code \in 200..299

\* JsonClient.response_ok: response.code == 200
response_ok(code) == code = 200

\* the value returnValue hands to the caller
PyBool(b) == IF b THEN <<"True">> ELSE <<"False">>

\* register_marathon_event_callback(events_url) is called: the
\* subscription list is fetched first.  The bridge calls it at startup, one
\* call at a time.
register_marathon_event_callback(events_url) ==
    /\ Len(ops) < limit.ops
    /\ inflight = {}
    /\ ops' = Append(ops, NewOp("subscribe", FALSE, NoEvent))
    /\ LET new == {get_event_subscriptions(Len(ops) + 1, events_url)}
       IN  /\ inflight' = inflight \cup new
           /\ sent' = sent (+) SetToBag(new)
    /\ UNCHANGED <<config, marathon, agents, kv, loops, failures>>

\* register_marathon_event_callback after the first yield: True at once
\* when events_url is among the callbackUrls, else the POST is issued
GotSubscriptions(r, o) ==
    /\ r.kind = "get_subscriptions"
    /\ o \in {"ok", "http_error", "failure"}
    /\ Fault(r, o)
    /\ LET err == MarathonError(o, r.flag)
           already_registered == r.val \in subscriptions
           new == IF err = "" /\ ~already_registered
                  THEN {post_event_subscription(r.op, r.val)} ELSE {}
       IN  /\ inflight' = (inflight \ {r}) \cup new
           /\ sent' = sent (+) SetToBag(new)
           /\ ops' = [ops EXCEPT ![r.op] =
                         IF err # ""
                         THEN [@ EXCEPT !.result = "failed", !.error = err]
                         ELSE IF already_registered
                         THEN [@ EXCEPT !.result = "ok",
                                        !.body = PyBool(TRUE)]
                         ELSE @]
    /\ UNCHANGED <<config, marathon, agents, kv, loops>>

\* register_marathon_event_callback after the second yield: the POST has
\* been answered.  Marathon holds the URL after a 2xx answer; log.err
\* swallows a transport failure and response_ok then fails on None.
PostAnswered(r, o) ==
    /\ r.kind = "post_subscription"
    /\ o \in PostOutcomes
    /\ Fault(r, o)
    /\ subscriptions' = IF o \in {"ok", "created"}
                        THEN subscriptions \cup {r.val} ELSE subscriptions
    /\ inflight' = inflight \ {r}
    /\ ops' = [ops EXCEPT ![r.op] =
                  IF o = "failure"
                  THEN [@ EXCEPT !.result = "failed",
                                 !.error = "AttributeError"]
                  ELSE [@ EXCEPT !.result = "ok",
                                 !.body = PyBool(response_ok(StatusCode(o)))]]
    /\ UNCHANGED <<config, schedApps, schedTasks, schedVersion, agents, kv,
                   loops, sent>>

\* calls of register_marathon_event_callback, one after the other
MaxSubscribeCalls == 2
MaxSubscribeFaults == 2

InitSubscribe ==
    InitWorld({w \in Worlds : w.tasks = {}},
              [ops |-> MaxSubscribeCalls, faults |-> MaxSubscribeFaults,
               changes |-> 0],
              SUBSET Urls)

NextSubscribe ==
    \/ \E url \in Urls : register_marathon_event_callback(url)
    \/ \E r \in inflight, o \in Outcomes : GotSubscriptions(r, o)
    \/ \E r \in inflight, o \in PostOutcomes : PostAnswered(r, o)

SpecSubscribe == InitSubscribe /\ [][NextSubscribe]_vars

\* ------------------------------------------------------------------------
\* Properties
\* ------------------------------------------------------------------------

\* the requests ever issued by call i
SentBy(i) == {r \in BagToSet(sent) : r.op = i}

\* Marathon lists two apps with the same app name
NameClash ==
    \E a, b \in DOMAIN schedApps : a # b /\ get_app_name(a) = get_app_name(b)

\* C1: when Marathon's app list holds two apps with equal app names,
\* sync_apps (purge or not) issues no request but GET /v2/apps, so no catalog
\* request at all, and once the list has arrived it has failed, with the
\* namespace clash error when the list arrived without fault.
C1_ClashAbortsSync ==
    \A i \in DOMAIN ops :
        (ops[i].type = "sync" /\ NameClash /\ ops[i].v0 = schedVersion) =>
            /\ \A r \in SentBy(i) : r.kind = "get_apps"
            /\ get_apps(i) \notin inflight =>
                  /\ ops[i].result = "failed"
                  /\ failures = {} => ops[i].error = "NamespaceClash"

\* a purging sync has failed with the namespace clash error
C1_Witness ==
    \E i \in DOMAIN ops :
        /\ ops[i].type = "sync" /\ ops[i].purge /\ NameClash
        /\ ops[i].result = "failed" /\ ops[i].error = "NamespaceClash"

\* C9: an event whose eventType is not status_update_event, or that has no
\* eventType, is answered 400 with {"error": "Event type <T> not
\* supported."}, T being None for a missing type, and causes no request to
\* Marathon or Consul.
C9_UnknownEvent ==
    \A i \in DOMAIN ops :
        (ops[i].type = "event"
         /\ ops[i].event.eventType # "status_update_event") =>
            /\ ops[i].code = 400
            /\ ops[i].body =
                  <<"error", "Event type ",
                    IF ops[i].event.eventType = Absent THEN "None"
                    ELSE ops[i].event.eventType,
                    " not supported.">>
            /\ SentBy(i) = {}

\* an event without eventType has been answered
C9_Witness ==
    \E i \in DOMAIN ops :
        /\ ops[i].type = "event" /\ ops[i].event.eventType = Absent
        /\ ops[i].event.taskStatus = "TASK_RUNNING"
        /\ ops[i].code = 400

\* a step that handles a TASK_STAGING or TASK_STARTING status update
NoopStep ==
    /\ Len(ops') = Len(ops) + 1
    /\ ops'[Len(ops')].type = "event"
    /\ ops'[Len(ops')].event.eventType = "status_update_event"
    /\ ops'[Len(ops')].event.taskStatus \in {"TASK_STAGING", "TASK_STARTING"}

\* C10: a status_update_event with taskStatus TASK_STAGING or TASK_STARTING
\* is answered {"status": "ok"} and causes no request to Marathon or Consul;
\* the step that handles it leaves the agents' services and the k/v store as
\* they were.
C10_NoopStatuses ==
    /\ [](\A i \in DOMAIN ops :
            (ops[i].type = "event"
             /\ ops[i].event.eventType = "status_update_event"
             /\ ops[i].event.taskStatus \in {"TASK_STAGING", "TASK_STARTING"})
            => /\ ops[i].code = 200
               /\ ops[i].body = <<"status", "ok">>
               /\ SentBy(i) = {})
    /\ [][NoopStep => UNCHANGED <<agents, kv, inflight, sent>>]_vars

\* a TASK_STARTING event has been answered in a world that holds services
C10_Witness ==
    \E i \in DOMAIN ops :
        /\ ops[i].type = "event"
        /\ ops[i].event.eventType = "status_update_event"
        /\ ops[i].event.taskStatus = "TASK_STARTING"
        /\ ops[i].code = 200
        /\ agents # NoServices

\* call i is a sync_apps that has succeeded while Marathon stayed as it was
SyncSucceeded(i) ==
    /\ ops[i].type = "sync"
    /\ ops[i].result = "ok"
    /\ ops[i].v0 = schedVersion

\* C2: after sync_apps has succeeded against an unchanged Marathon, the
\* agent at the host of every task holds a service with the task's id, the
\* app name of its app, the reg-id tag and the app-id tag of its app.
C2_RegistrationCoverage ==
    \A i \in DOMAIN ops :
        SyncSucceeded(i) =>
            \A t \in schedTasks :
                \E s \in agents[t.host] :
                    /\ s.ID = t.id
                    /\ s.Name = get_app_name(t.app)
                    /\ InList(reg_id_tag, s.Tags)
                    /\ InList(app_id_tag(t.app), s.Tags)

\* C3: after sync_apps(purge=True) has succeeded against an unchanged
\* Marathon, no agent holds a service with the reg-id tag whose ID is not
\* the id of a task Marathon runs.
C3_PurgeSoundness ==
    \A i \in DOMAIN ops :
        (SyncSucceeded(i) /\ ops[i].purge) =>
            \A h \in Hosts :
                \A s \in agents[h] :
                    InList(reg_id_tag, s.Tags) =>
                        s.ID \in {t.id : t \in schedTasks}

\* the label keys the k/v store holds under consular/<app_name>/
StoredLabelKeys(app_name) ==
    LET dir == ConsularDir \o app_name \o <<"/">>
    IN  {SubSeq(k, Len(dir) + 1, Len(k)) :
            k \in {j \in DOMAIN kv : StartsWith(j, dir)}}

\* C5: after sync_apps has succeeded against an unchanged Marathon, the keys
\* under consular/<app-name(a)>/ are the label keys of a, for every app a.
C5_LabelSubtreeEquality ==
    \A i \in DOMAIN ops :
        SyncSucceeded(i) =>
            \A a \in DOMAIN schedApps :
                StoredLabelKeys(get_app_name(a)) = DOMAIN schedApps[a]

\* C6: every recursive delete issued by purge_dead_app_labels is for an
\* entry consular/<app-name>/ whose app name is that of no app in the list
\* it was given.
C6_PurgeSparesLiveApps ==
    \A r \in BagToSet(sent) :
        (r.kind = "kv_delete" /\ r.flag
         /\ ops[r.op].v0 = schedVersion) =>
            \A a \in DOMAIN schedApps :
                Unquote(r.key) # ConsularDir \o get_app_name(a) \o <<"/">>

\* a step in which a request of a sync_apps call is answered
SyncStep == \E r \in inflight \ inflight' : ops[r.op].type = "sync"

\* the services of an agent that lack this bridge's reg-id tag
NotOurs(services) == {s \in services : ~InList(reg_id_tag, s.Tags)}

\* C4 as stated: no step of a sync_apps (purge or not) removes or replaces
\* a service that lacks this bridge's reg-id tag.
C4_OwnershipIsolation ==
    [][SyncStep =>
          \A h \in Hosts : NotOurs(agents[h]) \subseteq agents'[h]]_vars

\* C4 as the code has it: a step of a sync_apps never deregisters a service
\* that lacks this bridge's reg-id tag; such a service goes only when the
\* registration of a Marathon task with the same ID replaces it.
C4_OwnershipIsolationAmended ==
    [][SyncStep =>
          \A h \in Hosts :
              \A s \in NotOurs(agents[h]) :
                  \/ s \in agents'[h]
                  \/ \E n \in agents'[h], t \in schedTasks :
                        /\ n.ID = s.ID /\ t.id = s.ID
                        /\ n = Registered(t)]_vars

\* a purging sync has succeeded: it has listed the services of the agent
\* that holds another bridge's registration of a task Marathon does not
\* run and left it there, and it has registered a task over another
\* bridge's service with the task's ID
C4_Witness ==
    \E i \in DOMAIN ops :
        /\ ops[i].type = "sync" /\ ops[i].purge /\ ops[i].result = "ok"
        /\ inflight = {}
        /\ \E r \in SentBy(i) : r.kind = "services" /\ r.host = ConsulHost
        /\ Foreign(T2) \in agents[ConsulHost]
        /\ T2 \notin schedTasks
        /\ Registered(T1) \in agents["h1"]
        /\ \E r \in SentBy(i) : r.kind = "register" /\ r.body = Registered(T1)

\* an agent register that got no response (the request's Deferred failed)
FailedAgentRegisters ==
    {f \in failures :
        f.o = "failure" /\ f.r.kind = "register" /\ f.r.ctx = "agent"}

\* the other register requests of the same call with the same body
RegisteredAgain(q) ==
    {r \in BagToSet(sent) :
        r.kind = "register" /\ r.op = q.op /\ r.body = q.body /\ r # q}

\* C7: when a register sent to a task's agent fails (no response: treq's
\* Deferred fails) and fallback is enabled, exactly one more register is
\* sent, to consul_endpoint and with the same body; when that fails too the
\* call fails and there is no third register.  With fallback disabled the
\* call fails and no register is sent to consul_endpoint.
C7_RegisterFallback ==
    \A f \in FailedAgentRegisters :
        /\ CopiesIn(f.r, sent) = 1
        /\ IF enable_fallback
           THEN \E r \in RegisteredAgain(f.r) :
                   /\ RegisteredAgain(f.r) = {r}
                   /\ CopiesIn(r, sent) = 1
                   /\ r.host = consul_endpoint
                   /\ r.host # f.r.host
                   /\ [r |-> r, o |-> "failure"] \in failures =>
                         /\ ops[r.op].result = "failed"
                         /\ r \notin inflight
           ELSE /\ RegisteredAgain(f.r) = {}
                /\ ops[f.r.op].result = "failed"
                /\ \A r \in BagToSet(sent) :
                      ~(r.kind = "register" /\ r.host = consul_endpoint)

\* the register at the agent and its fallback at consul_endpoint have both
\* failed and the call is over
C7_Witness ==
    /\ enable_fallback
    /\ inflight = {}
    /\ \E f \in FailedAgentRegisters :
          \E r \in RegisteredAgain(f.r) :
              /\ [r |-> r, o |-> "failure"] \in failures
              /\ ops[r.op].result = "failed"

\* C8: every request to consul_endpoint for the agent's services
\* (register, deregister, list) is a register sent as fallback after the
\* register of the same call and body failed at the task's agent; so no
\* failed deregister and no failed service listing is sent there again.
\* consul_endpoint is taken to differ from every agent endpoint built from
\* a node address.
C8_FallbackOnlyForRegister ==
    \A r \in BagToSet(sent) :
        (r.host = consul_endpoint
         /\ r.kind \in {"register", "deregister", "services"}) =>
            /\ r.kind = "register"
            /\ enable_fallback
            /\ \E f \in FailedAgentRegisters :
                  f.r.op = r.op /\ f.r.body = r.body

\* with fallback enabled a deregister sent by the purge has failed and the
\* call is over
C8_Witness ==
    /\ enable_fallback
    /\ inflight = {}
    /\ \E f \in failures :
          /\ f.o = "failure"
          /\ f.r.kind = "deregister" /\ f.r.ctx = "purge"
          /\ ops[f.r.op].result = "failed"

\* call i handles a status_update_event whose taskStatus is one of those
\* that end a task
KilledEvent(i) ==
    /\ ops[i].type = "event"
    /\ ops[i].event.eventType = "status_update_event"
    /\ ops[i].event.taskStatus \in
          {"TASK_FINISHED", "TASK_FAILED", "TASK_KILLED", "TASK_LOST"}

\* C11: a status_update_event with taskStatus TASK_FINISHED, TASK_FAILED,
\* TASK_KILLED or TASK_LOST causes exactly one request, the deregister of the
\* event's taskId at the agent of the event's host, none to Marathon and none
\* to the k/v store, and it is answered {"status": "ok"} only after the
\* deregister has been answered with success.
C11_KilledEventDeregisters ==
    \A i \in DOMAIN ops :
        KilledEvent(i) =>
            \E r \in SentBy(i) :
                /\ SentBy(i) = {r}
                /\ CopiesIn(r, sent) = 1
                /\ r.kind = "deregister"
                /\ r.host = get_agent_endpoint(ops[i].event.host)
                /\ r.sid = ops[i].event.taskId
                /\ ops[i].body = <<"status", "ok">> =>
                      /\ r \notin inflight
                      /\ \A f \in failures : f.r # r

\* call i handles a status_update_event with taskStatus TASK_RUNNING
RunningEvent(i) ==
    /\ ops[i].type = "event"
    /\ ops[i].event.eventType = "status_update_event"
    /\ ops[i].event.taskStatus = "TASK_RUNNING"

\* the requests of call i that write to the k/v store or to an agent
WritesOf(i) ==
    {r \in SentBy(i) : r.kind \in {"kv_put", "kv_delete", "register"}}

\* C12: while a TASK_RUNNING event is handled no k/v put or delete is issued
\* before GET /v2/apps<appId> has been answered and no register before the
\* task list of the app has been answered; the event is answered
\* {"status": "ok"} only after every label put, label delete and register
\* of the app sync has been answered with success (a register that failed
\* at the agent counting through its fallback).
C12_RunningReadsBeforeWrites ==
    \A i \in DOMAIN ops :
        RunningEvent(i) =>
            LET app_reads == {r \in SentBy(i) : r.kind = "get_app"}
                task_reads == {r \in SentBy(i) : r.kind = "get_tasks"}
            IN  /\ (\E r \in WritesOf(i) : r.kind \in {"kv_put", "kv_delete"})
                      => /\ app_reads = {get_app(i, ops[i].event.appId)}
                         /\ app_reads \cap inflight = {}
                /\ (\E r \in WritesOf(i) : r.kind = "register")
                      => /\ task_reads # {}
                         /\ task_reads \cap inflight = {}
                /\ ops[i].body = <<"status", "ok">> =>
                      \A r \in WritesOf(i) :
                          /\ r \notin inflight
                          /\ \A f \in failures :
                                f.r = r => /\ f.o = "failure"
                                           /\ r.ctx = "agent"
                                           /\ enable_fallback

\* the URL call i of register_marathon_event_callback was given
UrlOf(i) == (CHOOSE r \in SentBy(i) : r.kind = "get_subscriptions").val

\* the POSTs of call i
PostsOf(i) == {r \in SentBy(i) : r.kind = "post_subscription"}

\* a step in which the subscription list arrives at call r.op
ListArrives(r) ==
    /\ r \in inflight \ inflight'
    /\ r.kind = "get_subscriptions"
    /\ failures' = failures

\* a step in which Marathon answers the POST r with a response
PostResponse(r) ==
    /\ r \in inflight \ inflight'
    /\ r.kind = "post_subscription"
    /\ [r |-> r, o |-> "failure"] \notin failures'

C14_KilledAfterRunning ==
    \A i, j \in DOMAIN ops :
        \A t \in schedTasks :
            (/\ RunningEvent(i) /\ ops[i].event.appId = t.app
             /\ ops[j].type = "event"
             /\ ops[j].event = StatusEvent("status_update_event",
                                           "TASK_KILLED", t)
             /\ i < j /\ i \notin ops[j].busy
             /\ ops[i].result = "ok" /\ ops[j].result = "ok"
             /\ inflight = {})
            => \A h \in Hosts : \A s \in agents[h] : s.ID # t.id

\* the TASK_RUNNING handler i and the TASK_KILLED handler j of one task have
\* both answered ok, the task is gone from Marathon, and the purging sync k
\* has answered ok with no request of any operation having failed
RaceThenPurge(i, j, k) ==
    /\ RunningEvent(i) /\ KilledEvent(j)
    /\ ops[i].event.taskId = ops[j].event.taskId
    /\ ops[i].result = "ok" /\ ops[j].result = "ok"
    /\ ops[i].event.taskId \notin {t.id : t \in schedTasks}
    /\ ops[k].type = "sync" /\ ops[k].purge
    /\ ops[k].result = "ok"
    /\ failures = {}

\* C15: when the TASK_RUNNING and the TASK_KILLED event of a task were
\* handled at the same time and the task is gone from Marathon, then after a
\* purging sync that succeeded without any request failing no agent holds a
\* service of this bridge with the task's id
C15_RacePurgedBySync ==
    \A i, j, k \in DOMAIN ops :
        RaceThenPurge(i, j, k)
        => \A h \in Hosts : \A s \in agents[h] :
               s.ID = ops[i].event.taskId => ~InList(reg_id_tag, s.Tags)

\* C15 witness: the TASK_KILLED event arrived while the TASK_RUNNING handler
\* was at work, the registration outlived the deregistration, and the sync
\* deregistered the task's service in its purge
C15_Witness ==
    \E i, j, k \in DOMAIN ops :
        /\ RaceThenPurge(i, j, k)
        /\ i \in ops[j].busy
        /\ \E r \in SentBy(i), d \in SentBy(j), p \in SentBy(k) :
              /\ r.kind = "register" /\ d.kind = "deregister"
              /\ p.kind = "deregister" /\ p.ctx = "purge"
              /\ p.sid = ops[i].event.taskId
              /\ p.host = r.host /\ p.host = d.host

\* C16: the result of a sync, success or failure, is delivered only when
\* none of the requests and purge loops the sync started is still under way
C16_ResultAfterAllSettled ==
    \A i \in DOMAIN ops :
        (ops[i].type = "sync" /\ ops[i].result # "pending")
        => Outstanding(i, inflight, loops) = {}

\* C17: a call fails as soon as one of its requests to Marathon or Consul
\* has been answered with a status outside 2xx
C17_NonSuccessStatusFails ==
    \A f \in failures :
        f.o = "http_error" => ops[f.r.op].result = "failed"

\* the register requests sent so far
RegistersSent == {r \in BagToSet(sent) : r.kind = "register"}

WritesIssued(i) ==
    {[r EXCEPT !.op = 0] : r \in {q \in SentBy(i) :
                                      q.kind \in {"register", "kv_put"}}}

\* calls i and j are syncs with the same purge flag, j was called when i
\* had come to rest, and j has come to rest as well
SyncedTwice(i, j) ==
    /\ i < j
    /\ ops[i].type = "sync" /\ ops[j].type = "sync"
    /\ ops[i].purge = ops[j].purge
    /\ ops[j].result # "pending"
    /\ Outstanding(j, inflight, loops) = {}

\* C19: when sync_apps is run twice in sequence, Marathon unchanged and no
\* request failing, the second run sends the same register and KV put
\* requests as the first and leaves the services of every agent and the KV
\* store as the first run left them
C19_SyncIdempotent ==
    \A i, j \in DOMAIN ops :
        SyncedTwice(i, j)
        => /\ WritesIssued(j) = WritesIssued(i)
           /\ agents = ops[j].agents0
           /\ kv = ops[j].kv0

\* a service of this bridge with more than one app id tag
Ambiguous(s) ==
    /\ s.Tags # <<>> /\ InList(reg_id_tag, s.Tags)
    /\ FindTagRaises(s.Tags, AppIdName)

\* a service of this bridge with one app id tag whose id is not the id of
\* a task Marathon runs for that app
TaggedOrphan(s) ==
    /\ s.Tags # <<>> /\ InList(reg_id_tag, s.Tags)
    /\ Len(TagMatches(s.Tags, AppIdName)) = 1
    /\ \A t \in schedTasks :
          app_id_tag(t.app) = TagMatches(s.Tags, AppIdName)[1] => t.id # s.ID

\* C20: once a purging sync has come to rest, no request having failed, an
\* agent that holds a service of this bridge with more than one app id tag
\* holds no tagged orphaned service any more
C20_AmbiguousServiceSparesOthers ==
    \A i \in DOMAIN ops :
        (/\ ops[i].type = "sync" /\ ops[i].purge
         /\ ops[i].result # "pending"
         /\ Outstanding(i, inflight, loops) = {}
         /\ ops[i].v0 = schedVersion
         /\ failures = {})
        => \A h \in Hosts :
               (\E a \in agents[h] : Ambiguous(a))
               => ~\E s \in agents[h] : TaggedOrphan(s)

\* the task reads of the purge that have been answered with a response
PurgeReadsAnswered ==
    {r \in BagToSet(sent) :
        /\ r.kind = "get_tasks" /\ r.ctx = "purge"
        /\ r \notin inflight
        /\ [r |-> r, o |-> "failure"] \notin failures}

\* the response to r carries no tasks field or an empty task list
NoTasksListed(r) ==
    \/ [r |-> r, o |-> "http_error"] \in failures
    \/ r.app \notin DOMAIN schedApps
    \/ \A t \in schedTasks : t.app # r.app

\* the ids of r.sids for which the purge of call r.op has sent a deregister
\* to the agent of r
PurgedOf(r) ==
    {d.sid : d \in {q \in SentBy(r.op) :
                       /\ q.kind = "deregister" /\ q.ctx = "purge"
                       /\ q.host = r.agent /\ q.sid \in r.sids}}

\* C21: when Marathon's response to the task read of a purge has no tasks
\* field or lists no task, a deregister is sent to the agent for every
\* service id of the group; when it lists tasks, for exactly the ids that
\* are not ids of listed tasks; and the response does not make the call fail
C21_PurgeServiceIfDead ==
    /\ [](\A r \in PurgeReadsAnswered :
             PurgedOf(r) = IF NoTasksListed(r) THEN r.sids
                           ELSE {sid \in r.sids :
                                    \A t \in schedTasks :
                                        t.app = r.app => t.id # sid})
    /\ [][\A r \in inflight \ inflight' :
             (/\ r.kind = "get_tasks" /\ r.ctx = "purge"
              /\ [r |-> r, o |-> "failure"] \notin failures')
             => ops'[r.op].result = ops[r.op].result
                \/ ops'[r.op].result = "ok"]_vars

\* C21 witness: the purge has read the tasks of an app Marathon does not
\* know and of an app with a listed task, and has sent the deregisters
C21_Witness ==
    \E r, q \in PurgeReadsAnswered :
        /\ r.app \notin DOMAIN schedApps /\ r.sids # {}
        /\ PurgedOf(r) = r.sids
        /\ ~NoTasksListed(q) /\ PurgedOf(q) # q.sids

\* C22: every request to one agent (register, deregister, list of the
\* agent's services) is sent with the agent timeout, every cluster-wide
\* Consul request (KV put, KV delete, KV key list, node list) with the
\* default timeout, and the agent timeout is the shorter one
C22_TimeoutsByScope ==
    /\ fallback_timeout < _timeout
    /\ \A r \in BagToSet(sent) :
          /\ r.kind \in {"register", "deregister", "services"}
                => r.timeout = fallback_timeout
          /\ r.kind \in {"kv_put", "kv_delete", "kv_keys", "nodes"}
                => r.timeout = _timeout

\* an app id without its first character, every "/" left replaced by "-"
NameOf(app_id) == Replace(Tail(app_id), "/", "-")

\* sync i has received Marathon's list of apps
GotApps(i) ==
    /\ ops[i].type = "sync"
    /\ \A r \in inflight : ~(r.op = i /\ r.kind = "get_apps")

\* C23: a sync fails over a clash of names exactly when two apps with
\* different ids have the same id-without-leading-slash-and-dashed name,
\* and otherwise lists the label keys of each app under that name
C23_AppNames ==
    \A i \in DOMAIN ops :
        GotApps(i) =>
            /\ ops[i].error = "NamespaceClash"
                  <=> \E a, b \in DOMAIN schedApps :
                         a # b /\ NameOf(a) = NameOf(b)
            /\ ops[i].error # "NamespaceClash"
                  => {r.key : r \in {q \in SentBy(i) : q.kind = "kv_keys"}}
                     = {Quote(AppKeysPath(NameOf(a))) : a \in DOMAIN schedApps}

\* the task reads the purge of sync i has sent for services of agent h
PurgeReadsFor(i, h) ==
    {r \in SentBy(i) : r.kind = "get_tasks" /\ r.ctx = "purge" /\ r.agent = h}

\* sync i has received the list of services of agent h
GotServices(i, h) ==
    \E r \in SentBy(i) : r.kind = "services" /\ r.host = h /\ r \notin inflight

\* the services agent h held when call i began that carry this bridge's
\* registration id tag and, as their only app id tag, the tag of app_id
TaggedFor(i, h, app_id) ==
    {s \in ops[i].agents0[h] :
        /\ InList(reg_id_tag, s.Tags)
        /\ InList(app_id_tag(app_id), s.Tags)
        /\ \A n, m \in 1..Len(s.Tags) :
              (/\ StartsWith(s.Tags[n], _consular_tag_key(AppIdName))
               /\ StartsWith(s.Tags[m], _consular_tag_key(AppIdName)))
              => n = m}

\* C24: the app id the purge reads from the tags of a service that carries
\* the app id tag of x as its only app id tag, among other tags, is x, for
\* every x that begins with "/": the purge asks Marathon for the tasks of
\* exactly x on behalf of exactly these services
C24_TagRoundTrip ==
    \A i \in DOMAIN ops : \A h \in Hosts :
        (ops[i].type = "sync" /\ GotServices(i, h))
        => /\ \A x \in IdUniverse :
                 TaggedFor(i, h, x) # {}
                 => \E r \in PurgeReadsFor(i, h) :
                        /\ r.app = x
                        /\ r.sids = {s.ID : s \in TaggedFor(i, h, x)}
           /\ \A r \in PurgeReadsFor(i, h) :
                 r.sids = {s.ID : s \in TaggedFor(i, h, r.app)}

\* C24 witness: the purge has read the tasks of an app whose id holds "="
\* and a character of the tag prefix, from a service with three tags, and
\* has deregistered the ended task's service
C24_Witness ==
    \E i \in DOMAIN ops : \E r \in PurgeReadsFor(i, "h1") :
        /\ Len(r.app) = 3 /\ r.app[2] = "=" /\ r.app[3] \in {"a", "-"}
        /\ r.sids = {"t0", "t1"}
        /\ EndedOf(r.app) \in ops[i].agents0["h1"]
        /\ ops[i].result = "ok"
        /\ \A s \in agents["h1"] : s.ID # "t0"

\* C25: the deletes that the clean phase of an app sends when its key list
\* arrives are all for keys under the app's own directory
\* consular/<app name>/
C25_CleanStaysInNamespace ==
    [][\A r \in inflight \ inflight' :
          (r.kind = "kv_keys" /\ r.ctx = "clean")
          => \A q \in inflight' \ inflight :
                 q.kind = "kv_delete"
                 => StartsWith(Unquote(q.key), Unquote(r.key) \o <<"/">>)
      ]_vars

\* C26: a deregister that the purge sends is never for a service id that
\* is the id of a task Marathon lists for the app the purge has read from
\* the service's tags
C26_PurgeSparesListedTasks ==
    [][\A q \in inflight' \ inflight :
          (q.kind = "deregister" /\ q.ctx = "purge")
          => \A r \in inflight \ inflight' :
                 (r.kind = "get_tasks" /\ r.ctx = "purge")
                 => \A t \in schedTasks : t.app = r.app => t.id # q.sid
      ]_vars

\* the registrations handler i has sent to the agents of tasks' hosts
AgentRegistersOf(i) ==
    {r \in SentBy(i) : r.kind = "register" /\ r.ctx = "agent"}

\* one registration for each task Marathon lists for the app of event i,
\* at the agent of the task's host, with the task's id, host and first port
ListedRegisters(i) ==
    {register_service(i, get_agent_endpoint(t.host), t.app, t.id, t.host,
                      t.ports[1]) :
        t \in {u \in schedTasks : u.app = ops[i].event.appId}}

\* handler i has received Marathon's list of tasks
TaskListArrived(i) ==
    \E r \in SentBy(i) :
        /\ r.kind = "get_tasks" /\ r \notin inflight
        /\ \A f \in failures : f.r # r

ServicesListed(i, h) ==
    /\ \E r \in SentBy(i) :
          /\ r.kind = "services" /\ r.host = h /\ r \notin inflight
          /\ \A f \in failures : f.r # r
    /\ \A s \in ops[i].agents0[AgentAt(h)] : ~Ambiguous(s)

\* C28: once a purging sync has come to rest, for every agent whose list of
\* services it has received, it has asked Marathon for the tasks of every
\* app id group found at that agent, whatever happened to the other groups
C28_GroupFailureSparesOthers ==
    \A i \in DOMAIN ops :
        (/\ ops[i].type = "sync" /\ ops[i].purge
         /\ ops[i].result # "pending"
         /\ Outstanding(i, inflight, loops) = {})
        => \A h \in Hosts :
               ServicesListed(i, h)
               => \A x \in AppIds : \A s \in TaggedFor(i, h, x) :
                      \E r \in PurgeReadsFor(i, h) :
                          r.app = x /\ s.ID \in r.sids

====
